---- MODULE Spec2Model ----
(***************************************************************************)
(* The tutorial notebook doc/Tutorials/hegde_cc07.ipynb as a state machine. *)
(*                                                                         *)
(* The state is the kernel's user namespace (ns: bound name -> value) and  *)
(* the layout each code cell displayed last (out).  One action per code    *)
(* cell; a cell runs its statements in order and stops at the first        *)
(* NameError, keeping the names bound before it.  A session either runs   *)
(* the cells one by one in any order ("interactive"), or runs them all top *)
(* to bottom and then re-executes cells in any order ("run_all").          *)
(*                                                                         *)
(* Numbers: a Python float is modelled by the exact value of the           *)
(* expression that computes it, a rational multiple of pi^e (e = 0 or 1),  *)
(* kept in lowest terms.  Pattern objects are modelled by value: the class *)
(* and the keyword arguments passed to the constructor.                    *)
(*                                                                         *)
(* The order in which a Python 2 dict yields its values is its hash order, *)
(* which depends on the interpreter build: a list made from it is held as  *)
(* the bag of its elements, with no order (see ListValue).                 *)
(*                                                                         *)
(* Not modelled: the loop variables a Python 2 list comprehension leaves   *)
(* bound (i, j, p); no statement of the notebook reads them.               *)
(***************************************************************************)
EXTENDS Integers, Sequences, FiniteSets, Bags, TLC

VARIABLES
    pyMajor,      \* major version of the Python kernel executing the notebook
    variantsSrc,  \* the number literal assigned to variants on line 45
    mode,         \* how the user drives the session: "run_all" or "interactive"
    executed,     \* number of cell executions so far (the kernel's execution count)
    ns,           \* user namespace of the kernel: bound name -> value
    out           \* cell -> the layout the cell displayed last

vars == <<pyMajor, variantsSrc, mode, executed, ns, out>>

\* Largest value tried for the literal assigned to variants.
MaxVariants == 4
\* Cell executions of an interactive session.
MaxRuns == 4
\* Cell executions that follow a complete top-to-bottom run.
MaxReruns == 2

\* Python versions the notebook is run with: 2 is the kernel recorded in the
\* notebook metadata (lines 266, 278), 3 the interpreter of current installs.
PyVersions == {2, 3}

----------------------------------------------------------------------------
(* Numbers *)

RECURSIVE Gcd(_, _)
Gcd(a, b) == IF b = 0 THEN a ELSE Gcd(b, a % b)

Abs(x) == IF x < 0 THEN -x ELSE x

\* n/d * pi^e in lowest terms, d > 0.
Norm(n, d, e) ==
    LET s == IF d < 0 THEN -1 ELSE 1
        g == Gcd(Abs(n), Abs(d))
    IN  [n |-> (s * n) \div g, d |-> (s * d) \div g, e |-> IF n = 0 THEN 0 ELSE e]

Num(i) == Norm(i, 1, 0)
\* a decimal literal: Dec(35, 100) is 0.35
Dec(n, d) == Norm(n, d, 0)
NpPi == Norm(1, 1, 1)

RMul(a, b) == Norm(a.n * b.n, a.d * b.d, a.e + b.e)
RDiv(a, b) == Norm(a.n * b.d, a.d * b.n, a.e - b.e)
RAdd(a, b) == Norm(a.n * b.d + b.n * a.d, a.d * b.d, IF a.n = 0 THEN b.e ELSE a.e)

----------------------------------------------------------------------------
(* Namespace, lists, dictionaries, iterators *)

\* Evaluation order: the value v is computed before the expression e that
\* uses it, as Python computes the operands of a statement before the next
\* statement runs.  Then(v, e) is e.
Then(v, e) == IF {v} # {} THEN e ELSE e

Has(k, name) == name \in DOMAIN k
HasAll(k, names) == names \subseteq DOMAIN k

Bind(k, name, v) == (name :> v) @@ k

EmptyNs == [x \in {} |-> 0]

\* Python slices xs[i:] and xs[:i] for i >= 0 (indices past the end are clamped)
SliceFrom(xs, i) == IF i >= Len(xs) THEN <<>> ELSE SubSeq(xs, i + 1, Len(xs))
SliceTo(xs, i) == IF i >= Len(xs) THEN xs ELSE SubSeq(xs, 1, i)

\* The bag of the elements of a sequence.
SeqToBag(xs) ==
    [e \in {xs[i] : i \in 1..Len(xs)} |-> Cardinality({i \in 1..Len(xs) : xs[i] = e})]

\* A list object held inside another list (the subclass lists of lines
\* 239-246): the bag of its elements and, when the order of the elements is
\* determined by the code (known), their sequence.  A list whose order is
\* the hash order of a Python 2 dict has known = FALSE and seq = <<>>.
ListValue(xs) == [known |-> TRUE, items |-> SeqToBag(xs), seq |-> xs]
HashOrderList(xs) == [known |-> FALSE, items |-> SeqToBag(xs), seq |-> <<>>]

\* len(x) of a list value
ListLen(x) == BagCardinality(x.items)

\* x + y of two list values
ListConcat(x, y) ==
    [known |-> x.known /\ y.known,
     items |-> x.items (+) y.items,
     seq   |-> IF x.known /\ y.known THEN x.seq \o y.seq ELSE <<>>]

\* [p for c in xss for p in c], xss a sequence of list values
RECURSIVE Flatten(_)
Flatten(xss) ==
    IF xss = <<>> THEN ListValue(<<>>)
    ELSE ListConcat(Head(xss), Flatten(Tail(xss)))

\* A dict is the sequence of its <<key, value>> items in insertion order, with
\* distinct keys; d[key] = value replaces the value of a key already present.
\* Python 3.7 and later iterate a dict in this order; Python 2 iterates it in
\* hash order, so under Python 2 the sequence is the history of the dict and
\* not an order the program can observe.
DictKeys(d) == {d[i][1] : i \in 1..Len(d)}
DictSet(d, key, value) ==
    IF key \in DictKeys(d)
    THEN [i \in 1..Len(d) |-> IF d[i][1] = key THEN <<key, value>> ELSE d[i]]
    ELSE Append(d, <<key, value>>)
\* list(d.values()): in insertion order under Python 3, in hash order (an
\* order the code does not determine) under Python 2.
DictValues(d) ==
    IF pyMajor >= 3
    THEN ListValue([i \in 1..Len(d) |-> d[i][2]])
    ELSE HashOrderList([i \in 1..Len(d) |-> d[i][2]])

\* zip(xs, ys): a list in Python 2, a one-shot iterator in Python 3.
Zip(xs, ys) ==
    LET m == IF Len(xs) < Len(ys) THEN Len(xs) ELSE Len(ys)
    IN  [oneshot |-> pyMajor >= 3, items |-> [i \in 1..m |-> <<xs[i], ys[i]>>], pos |-> 0]

\* What a for clause gets from an iterable, and the iterable afterwards: a
\* list is iterated from its start and left as it is, a one-shot iterator is
\* iterated from where it stands and left exhausted.
Remaining(it) == IF it.oneshot THEN SliceFrom(it.items, it.pos) ELSE it.items
Drained(it) == IF it.oneshot THEN [it EXCEPT !.pos = Len(it.items)] ELSE it

\* The generator expression (i*np.pi/DEN for i in range(variants)): range is
\* evaluated when the generator is created, the element expression (with the
\* global variants) at each step.  mul records DEN = mul * variants.
GenExp(k, mul) == [stop |-> k["variants"], pos |-> 0, mul |-> mul]
GenDone(g) == g.pos >= g.stop
GenValue(g, k) == RDiv(RMul(Num(g.pos), NpPi), Num(g.mul * k["variants"]))
GenAdvance(g) == [g EXCEPT !.pos = g.pos + 1]

----------------------------------------------------------------------------
(* Patterns and layouts *)

Pattern(cls, kw) == [cls |-> cls, kw |-> kw]

\* hv.Layout(items).cols(c) / hv.NdLayout(items).cols(c)
Layout(nitems, c) == [items |-> nitems, cols |-> c]

\* The output area of a cell after a run: the layout it displayed, or none
\* when the run ended in a traceback.  shown is a sequence of 0 or 1 layouts.
Display(o, cell, shown) ==
    IF shown = <<>> THEN [x \in DOMAIN o \ {cell} |-> o[x]]
    ELSE Bind(o, cell, shown[1])

ImagenClasses ==
    {"SineGrating", "HyperbolicGrating", "ConcentricRings", "SpiralGrating",
     "RadialGrating", "Rectangle", "Asterisk", "Ring", "Angle", "ArcCentered"}

RECURSIVE BindAll(_, _, _)
BindAll(k, names, v) ==
    IF names = {} THEN k
    ELSE LET x == CHOOSE y \in names : TRUE
         IN  BindAll(Bind(k, x, v), names \ {x}, v)

----------------------------------------------------------------------------
(* Cells.  Each cell operator maps a namespace to the namespace after the  *)
(* cell; the companion ...Shown operator gives what the cell displays.     *)

\* lines 28-31
ImportCell(k) == BindAll(k, {"ig", "np", "hv"}, "module")

\* lines 42-45: the %output and %opts magics exist only once the holoviews
\* extension is loaded; without it the cell stops at line 42.
SetupCell(k) ==
    IF ~Has(k, "hv") THEN k
    ELSE Bind(BindAll(k, ImagenClasses, "class"), "variants", variantsSrc)

\* SineGrating(phase=np.pi/2, frequency=f, orientation=o) (line 56)
Sine(o, f) ==
    Pattern("SineGrating",
            [phase |-> RDiv(NpPi, Num(2)), frequency |-> f, orientation |-> o])

\* The inner clause of lines 56-57, for f in frequencies, at orientation o:
\* the dict d with the items for fs[i], fs[i+1], ... set.
RECURSIVE SinInner(_, _, _, _)
SinInner(d, o, fs, i) ==
    IF i > Len(fs) THEN d
    ELSE LET d1 == DictSet(d, <<o, fs[i]>>, Sine(o, fs[i]))
         IN  Then(d1, SinInner(d1, o, fs, i + 1))

\* The generator g consumed as an inner loop at frequency f:
\* <<generator after, dict after>>.
RECURSIVE SinSwappedInner(_, _, _, _)
SinSwappedInner(k, g, f, d) ==
    IF GenDone(g) THEN <<g, d>>
    ELSE LET d1 == DictSet(d, <<GenValue(g, k), f>>, Sine(GenValue(g, k), f))
         IN  Then(d1, SinSwappedInner(k, GenAdvance(g), f, d1))

RECURSIVE SinSwappedOuter(_, _, _, _, _)
SinSwappedOuter(k, g, fs, d, i) ==
    IF i > Len(fs) THEN <<g, d>>
    ELSE LET r == SinSwappedInner(k, g, fs[i], d)
         IN  SinSwappedOuter(k, r[1], fs, r[2], i + 1)

\* Mutant of SinComprehension: the loops swapped, for f in frequencies for o
\* in orientations, so that the one-shot generator is the inner loop.
SinComprehensionSwapped(k, g, fs, d) == SinSwappedOuter(k, g, fs, d, 1)

\* lines 56-57: {(o, f): SineGrating(...) for o in orientations for f in frequencies}
\* g is the generator bound to orientations; returns <<generator after, dict>>.
RECURSIVE SinComprehension(_, _, _, _)
SinComprehension(k, g, fs, d) ==
    IF GenDone(g) THEN <<g, d>>
    ELSE LET o  == GenValue(g, k)
             d1 == Then(o, SinInner(d, o, fs, 1))
         IN  Then(d1, SinComprehension(k, GenAdvance(g), fs, d1))

Frequencies == <<Dec(20, 10), Dec(31, 10), Dec(42, 10)>>

\* lines 54-59
SinCell(k) ==
    IF ~Has(k, "variants") THEN k
    ELSE LET k1 == Bind(k, "orientations", GenExp(k, 1))
             k2 == Bind(k1, "frequencies", Frequencies)
             r  == SinComprehension(k2, k2["orientations"], k2["frequencies"], <<>>)
             k3 == Bind(Bind(k2, "orientations", r[1]), "sin", r[2])
         IN  Bind(k3, "sinusoidal", Layout(Len(k3["sin"]), 6))

SinShown(k) == IF Has(k, "variants") THEN <<SinCell(k)["sinusoidal"]>> ELSE <<>>

\* lines 70-71: {(s, t, o): HyperbolicGrating(...) for o in orientations
\*                                               for (s, t) in size_thickness}
\* g is the generator bound to orientations, st the object bound to
\* size_thickness; returns <<generator after, size_thickness after, dict>>.
\* (HypInner: the inner clause, for (s, t) in size_thickness, at orientation
\* o, over the pairs ps the iterable yields.)
RECURSIVE HypInner(_, _, _, _)
HypInner(d, o, ps, i) ==
    IF i > Len(ps) THEN d
    ELSE LET d1 == DictSet(d, <<ps[i][1], ps[i][2], o>>,
                           Pattern("HyperbolicGrating",
                                   [size |-> ps[i][1], thickness |-> ps[i][2],
                                    orientation |-> o]))
         IN  Then(d1, HypInner(d1, o, ps, i + 1))

RECURSIVE HypComprehension(_, _, _, _)
HypComprehension(k, g, st, d) ==
    IF GenDone(g) THEN <<g, st, d>>
    ELSE LET o   == GenValue(g, k)
             ps  == Remaining(st)
             d1  == Then(o, Then(ps, HypInner(d, o, ps, 1)))
             st1 == Drained(st)
         IN  Then(d1, Then(st1, HypComprehension(k, GenAdvance(g), st1, d1)))

Sizes == <<Dec(18, 100), Dec(27, 100), Dec(36, 100)>>
Thicknesses == <<Dec(15, 1000), Dec(3, 100), Dec(4, 100)>>

\* lines 68-73
HypCell(k) ==
    LET k1 == Bind(k, "size_thickness", Zip(Sizes, Thicknesses))
    IN  IF ~Has(k1, "variants") THEN k1
        ELSE LET k2 == Bind(k1, "orientations", GenExp(k1, 2))
                 r  == HypComprehension(k2, k2["orientations"], k2["size_thickness"], <<>>)
                 k3 == Bind(Bind(Bind(k2, "orientations", r[1]),
                                 "size_thickness", r[2]), "hyp", r[3])
             IN  Bind(k3, "hyperbolic", Layout(Len(k3["hyp"]), 6))

HypShown(k) == IF Has(k, "variants") THEN <<HypCell(k)["hyperbolic"]>> ELSE <<>>

\* line 82
Pol1(n) ==
    [i \in 1..n |->
        LET j == Num(i - 1)
        IN  Pattern("ConcentricRings",
                [size      |-> RDiv(Dec(35, 100), RAdd(Num(1), RMul(j, Dec(5, 10)))),
                 thickness |-> RDiv(Dec(5, 100), RAdd(Num(1), RMul(j, Dec(35, 100)))),
                 smoothing |-> RDiv(Dec(5, 100), RAdd(Num(1), RMul(j, Dec(15, 100))))])]

\* Mutant of SpiralFamily: the loop variable j is not used, every spiral of a
\* family gets the parameters of the first.
SpiralFamilyConstant(n, t0, dt, s0, ds) ==
    [i \in 1..n |->
        Pattern("SpiralGrating", [parts |-> Num(2), turning |-> t0, smoothing |-> s0])]

\* lines 84-87: [SpiralGrating(parts=(j+1)*2, turning=t0+dt*j, smoothing=s0+ds*j)
\*               for j in range(variants)]
SpiralFamily(n, t0, dt, s0, ds) ==
    [i \in 1..n |->
        LET j == i - 1
        IN  Pattern("SpiralGrating",
                [parts     |-> Num((j + 1) * 2),
                 turning   |-> RAdd(t0, RMul(dt, Num(j))),
                 smoothing |-> RAdd(s0, RMul(ds, Num(j)))])]

Pol2(n) == SpiralFamily(n, Dec(19, 100), Dec(30, 100), Dec(110, 1000), Dec(15, 1000))
Pol3(n) == SpiralFamily(n, Dec(9, 100), Dec(13, 100), Dec(50, 1000), Dec(6, 1000))
Pol4(n) == SpiralFamily(n, Dec(6, 100), Dec(9, 100), Dec(35, 1000), Dec(6, 1000))
Pol5(n) == SpiralFamily(n, Dec(5, 100), Dec(7, 100), Dec(30, 1000), Dec(3, 1000))

\* line 89
Pol6(n) ==
    [i \in 1..n |-> Pattern("RadialGrating", [parts |-> Num(((i - 1) + 1) * 2)])]

\* lines 82-93
PolarCell(k) ==
    IF ~Has(k, "variants") THEN k
    ELSE LET n  == k["variants"]
             k1 == Bind(k, "pol1", Pol1(n))
             k2 == Bind(k1, "pol2", Pol2(n))
             k3 == Bind(k2, "pol3", Pol3(n))
             k4 == Bind(k3, "pol4", Pol4(n))
             k5 == Bind(k4, "pol5", Pol5(n))
             k6 == Bind(k5, "pol6", Pol6(n))
         IN  Bind(k6, "polar", k6["pol1"] \o k6["pol2"] \o k6["pol3"]
                               \o k6["pol4"] \o k6["pol5"] \o k6["pol6"])

PolarShown(k) ==
    IF Has(k, "variants") THEN <<Layout(Len(PolarCell(k)["polar"]), 8)>> ELSE <<>>

\* lines 102-105: Rectangle(orientation=j*np.pi/4, smoothing=0.015,
\*                          aspect_ratio=ar, size=sz)
Bars(n, ar, sz) ==
    [i \in 1..n |->
        Pattern("Rectangle",
            [orientation  |-> RDiv(RMul(Num(i - 1), NpPi), Num(4)),
             smoothing    |-> Dec(15, 1000),
             aspect_ratio |-> ar,
             size         |-> sz])]

\* lines 102-107
BarCell(k) ==
    IF ~Has(k, "variants") THEN k
    ELSE LET k1 == Bind(k, "bar1", Bars(k["variants"], Dec(1, 10), Dec(5, 10)))
             k2 == Bind(k1, "bar2", Bars(k1["variants"], Dec(2, 10), Dec(25, 100)))
         IN  Bind(k2, "bar", k2["bar1"] \o k2["bar2"])

BarShown(k) ==
    IF Has(k, "variants") THEN <<Layout(Len(BarCell(k)["bar"]), 8)>> ELSE <<>>

\* lines 116-117 and 128-129:
\* [Asterisk(parts=p, size=sz, orientation=j*np.pi/den) for j in range(n)]
Asterisks(n, p, sz, den) ==
    [i \in 1..n |->
        Pattern("Asterisk",
            [parts |-> Num(p), size |-> sz,
             orientation |-> RDiv(RMul(Num(i - 1), NpPi), Num(den))])]

\* lines 116-119
TristarCell(k) ==
    IF ~Has(k, "variants") THEN k
    ELSE LET k1 == Bind(k, "star1", Asterisks(k["variants"], 3, Dec(50, 100), 2))
             k2 == Bind(k1, "star2", Asterisks(k1["variants"], 3, Dec(25, 100), 2))
         IN  Bind(k2, "tristar", k2["star1"] \o k2["star2"])

TristarShown(k) ==
    IF Has(k, "variants") THEN <<Layout(Len(TristarCell(k)["tristar"]), 8)>> ELSE <<>>

\* lines 128-131
CrossCell(k) ==
    IF ~Has(k, "variants") THEN k
    ELSE LET k1 == Bind(k, "star3", Asterisks(k["variants"], 4, Dec(50, 100), 8))
             k2 == Bind(k1, "star4", Asterisks(k1["variants"], 4, Dec(25, 100), 8))
         IN  Bind(k2, "cross", k2["star3"] \o k2["star4"])

CrossShown(k) ==
    IF Has(k, "variants") THEN <<Layout(Len(CrossCell(k)["cross"]), 8)>> ELSE <<>>

\* lines 140 and 143: [Asterisk(parts=5, size=sz, orientation=j*np.pi) for j in range(2)]
Stars5(sz) ==
    [i \in 1..2 |->
        Pattern("Asterisk",
            [parts |-> Num(5), size |-> sz, orientation |-> RMul(Num(i - 1), NpPi)])]

\* lines 141 and 144
Star6Parts(sz) == <<Pattern("Asterisk", [parts |-> Num(6), size |-> sz])>>

\* lines 142 and 145
Rings(sz) ==
    <<Pattern("Ring", [smoothing |-> Dec(15, 1000), thickness |-> Dec(5, 100), size |-> sz])>>

\* Mutant of StarAssign: a list already bound to the name is kept, so that the
\* += statements extend the list of the previous execution.
StarAssignKeep(k, name, sz) == IF Has(k, name) THEN k ELSE Bind(k, name, Stars5(sz))

\* star5 = [...] (line 140), star6 = [...] (line 143): the name is rebound
StarAssign(k, name, sz) == Bind(k, name, Stars5(sz))

\* star5 += [...] (lines 141-142, 144-145): the list bound to name is extended
StarExtend(k, name, xs) == Bind(k, name, k[name] \o xs)

\* lines 140-147: the cell uses no variants, only names of imagen
StarCell(k) ==
    IF ~Has(k, "Asterisk") THEN k
    ELSE LET k1 == StarAssign(k, "star5", Dec(50, 100))
             k2 == StarExtend(k1, "star5", Star6Parts(Dec(50, 100)))
             k3 == StarExtend(k2, "star5", Rings(Dec(5, 10)))
             k4 == StarAssign(k3, "star6", Dec(25, 100))
             k5 == StarExtend(k4, "star6", Star6Parts(Dec(25, 100)))
             k6 == StarExtend(k5, "star6", Rings(Dec(25, 100)))
         IN  Bind(k6, "star", k6["star5"] \o k6["star6"])

StarShown(k) ==
    IF Has(k, "Asterisk") THEN <<Layout(Len(StarCell(k)["star"]), 8)>> ELSE <<>>

\* lines 156-157, 168-169, 180-181:
\* [Angle(size=sz, angle=a, orientation=j*2*np.pi/variants) for j in range(variants)]
Angles(n, sz, a) ==
    [i \in 1..n |->
        Pattern("Angle",
            [size |-> sz, angle |-> a,
             orientation |-> RDiv(RMul(RMul(Num(i - 1), Num(2)), NpPi), Num(n))])]

\* lines 156-159, 168-171, 180-183: one cell per angle a
AngleCell(k, first, second, both, a) ==
    IF ~Has(k, "variants") THEN k
    ELSE LET k1 == Bind(k, first, Angles(k["variants"], Dec(50, 100), a))
             k2 == Bind(k1, second, Angles(k1["variants"], Dec(25, 100), a))
         IN  Bind(k2, both, k2[first] \o k2[second])

AcuteCell(k) == AngleCell(k, "ang1", "ang2", "acute", RDiv(NpPi, Num(8)))
RightCell(k) == AngleCell(k, "ang3", "ang4", "right", RDiv(NpPi, Num(4)))
ObtuseCell(k) == AngleCell(k, "ang5", "ang6", "obtuse", RDiv(NpPi, Num(3)))

AcuteShown(k) ==
    IF Has(k, "variants") THEN <<Layout(Len(AcuteCell(k)["acute"]), 8)>> ELSE <<>>
RightShown(k) ==
    IF Has(k, "variants") THEN <<Layout(Len(RightCell(k)["right"]), 8)>> ELSE <<>>
ObtuseShown(k) ==
    IF Has(k, "variants") THEN <<Layout(Len(ObtuseCell(k)["obtuse"]), 8)>> ELSE <<>>

\* lines 192-195, 206-209, 220-223:
\* [ArcCentered(arc_length=al, smoothing=0.015, thickness=0.05, size=sz,
\*              orientation=i*2*np.pi/variants) for i in range(variants)]
Arcs(n, al, sz) ==
    [i \in 1..n |->
        Pattern("ArcCentered",
            [arc_length |-> al, smoothing |-> Dec(15, 1000), thickness |-> Dec(5, 100),
             size |-> sz,
             orientation |-> RDiv(RMul(RMul(Num(i - 1), Num(2)), NpPi), Num(n))])]

\* lines 192-197, 206-211, 220-225: one cell per arc length al
ArcCell(k, first, second, both, al) ==
    IF ~Has(k, "variants") THEN k
    ELSE LET k1 == Bind(k, first, Arcs(k["variants"], al, Dec(50, 100)))
             k2 == Bind(k1, second, Arcs(k1["variants"], al, Dec(25, 100)))
         IN  Bind(k2, both, k2[first] \o k2[second])

QuarterCell(k) == ArcCell(k, "arc1", "arc2", "quarter", RDiv(NpPi, Num(2)))
SemiCell(k) == ArcCell(k, "arc3", "arc4", "semi", NpPi)
ThreeqtrsCell(k) ==
    ArcCell(k, "arc5", "arc6", "threeqtrs", RDiv(RMul(Num(3), NpPi), Num(2)))

QuarterShown(k) ==
    IF Has(k, "variants") THEN <<Layout(Len(QuarterCell(k)["quarter"]), 8)>> ELSE <<>>
SemiShown(k) ==
    IF Has(k, "variants") THEN <<Layout(Len(SemiCell(k)["semi"]), 8)>> ELSE <<>>
ThreeqtrsShown(k) ==
    IF Has(k, "variants") THEN <<Layout(Len(ThreeqtrsCell(k)["threeqtrs"]), 8)>> ELSE <<>>

\* line 236
ConcentricLike(k) ==
    k["pol1"] \o SliceFrom(k["pol2"], 1) \o SliceFrom(k["pol3"], 2)
              \o SliceFrom(k["pol4"], 2) \o SliceFrom(k["pol5"], 3)

\* Mutant of RadialLike: pol2 split at 2 on this line and at 1 on line 236.
RadialLikeOverlap(k) ==
    SliceTo(k["pol2"], 2) \o SliceTo(k["pol3"], 2) \o SliceTo(k["pol4"], 2)
                          \o SliceTo(k["pol5"], 3) \o k["pol6"]

\* line 237
RadialLike(k) ==
    SliceTo(k["pol2"], 1) \o SliceTo(k["pol3"], 2) \o SliceTo(k["pol4"], 2)
                          \o SliceTo(k["pol5"], 3) \o k["pol6"]

\* line 239
GratingSubclasses(k) ==
    <<DictValues(k["sin"]), DictValues(k["hyp"]),
      ListValue(k["concentric_like"]), ListValue(k["radial_like"])>>

\* line 240: adjacent string literals are concatenated, 'sinusoidal''hyperbolic'
\* is the single string 'sinusoidalhyperbolic'
GratingLabels == <<"sinusoidalhyperbolic", "concentric-like", "radial-like">>

ContourNames ==
    <<"bar", "tristar", "cross", "star", "acute", "right", "obtuse",
      "quarter", "semi", "threeqtrs">>

\* line 242
ContourSubclasses(k) == [i \in 1..Len(ContourNames) |-> ListValue(k[ContourNames[i]])]

\* lines 243-244
ContourLabels ==
    <<"bar", "tri-star", "cross", "star/circle", "acute angle", "right angle",
      "obtuse angle", "quarter arc", "semi-circle", "3/4 arc">>

\* lines 236-247: the statements in order, stopping at the first unbound name
FinalCell(k) ==
    IF ~HasAll(k, {"pol1", "pol2", "pol3", "pol4", "pol5"}) THEN k ELSE
    LET k1 == Bind(k, "concentric_like", ConcentricLike(k)) IN
    IF ~HasAll(k1, {"pol2", "pol3", "pol4", "pol5", "pol6"}) THEN k1 ELSE
    LET k2 == Bind(k1, "radial_like", RadialLike(k1)) IN
    IF ~HasAll(k2, {"sin", "hyp", "concentric_like", "radial_like"}) THEN k2 ELSE
    LET k3 == Bind(k2, "grating_stimuli_subclasses", GratingSubclasses(k2))
        k4 == Bind(k3, "grating_stimuli_subclasses_labels", GratingLabels)
    IN
    IF ~HasAll(k4, {ContourNames[i] : i \in 1..Len(ContourNames)}) THEN k4 ELSE
    LET k5 == Bind(k4, "contour_stimuli_subclasses", ContourSubclasses(k4))
        k6 == Bind(k5, "contour_stimuli_subclasses_labels", ContourLabels)
        k7 == Bind(k6, "all_stimuli_subclasses",
                   k6["grating_stimuli_subclasses"] \o k6["contour_stimuli_subclasses"])
    IN  Bind(k7, "all_stimuli_subclasses_labels",
             k7["grating_stimuli_subclasses_labels"]
                 \o k7["contour_stimuli_subclasses_labels"])

\* line 257 (markdown): [p[:] for c in all_stimuli_subclasses for p in c]
ViewAll(k) == Flatten(k["all_stimuli_subclasses"])

----------------------------------------------------------------------------
(* The notebook: every cell can be executed at any time. *)

\* The code cells in notebook order.
CellOrder ==
    <<"imports", "setup", "sinusoidal", "hyperbolic", "polar", "bar", "tristar",
      "cross", "star", "acute", "right", "obtuse", "quarter", "semi", "threeqtrs",
      "subclasses">>

Init ==
    /\ pyMajor \in PyVersions
    /\ variantsSrc \in 1..MaxVariants
    /\ mode \in {"run_all", "interactive"}
    /\ executed = 0
    /\ ns = EmptyNs
    /\ out = EmptyNs

\* The user's choice of the cell to execute next.
CanRun(cell) ==
    IF mode = "run_all" /\ executed < Len(CellOrder)
    THEN CellOrder[executed + 1] = cell
    ELSE IF mode = "run_all"
         THEN executed < Len(CellOrder) + MaxReruns
         ELSE executed < MaxRuns

RunImport ==
    /\ CanRun("imports")
    /\ executed' = executed + 1
    /\ ns' = ImportCell(ns)
    /\ UNCHANGED <<pyMajor, variantsSrc, mode, out>>

RunSetup ==
    /\ CanRun("setup")
    /\ executed' = executed + 1
    /\ ns' = SetupCell(ns)
    /\ UNCHANGED <<pyMajor, variantsSrc, mode, out>>

RunSin ==
    /\ CanRun("sinusoidal")
    /\ executed' = executed + 1
    /\ ns' = SinCell(ns)
    /\ out' = Display(out, "sinusoidal", SinShown(ns))
    /\ UNCHANGED <<pyMajor, variantsSrc, mode>>

RunHyp ==
    /\ CanRun("hyperbolic")
    /\ executed' = executed + 1
    /\ ns' = HypCell(ns)
    /\ out' = Display(out, "hyperbolic", HypShown(ns))
    /\ UNCHANGED <<pyMajor, variantsSrc, mode>>

RunPolar ==
    /\ CanRun("polar")
    /\ executed' = executed + 1
    /\ ns' = PolarCell(ns)
    /\ out' = Display(out, "polar", PolarShown(ns))
    /\ UNCHANGED <<pyMajor, variantsSrc, mode>>

RunBar ==
    /\ CanRun("bar")
    /\ executed' = executed + 1
    /\ ns' = BarCell(ns)
    /\ out' = Display(out, "bar", BarShown(ns))
    /\ UNCHANGED <<pyMajor, variantsSrc, mode>>

RunTristar ==
    /\ CanRun("tristar")
    /\ executed' = executed + 1
    /\ ns' = TristarCell(ns)
    /\ out' = Display(out, "tristar", TristarShown(ns))
    /\ UNCHANGED <<pyMajor, variantsSrc, mode>>

RunCross ==
    /\ CanRun("cross")
    /\ executed' = executed + 1
    /\ ns' = CrossCell(ns)
    /\ out' = Display(out, "cross", CrossShown(ns))
    /\ UNCHANGED <<pyMajor, variantsSrc, mode>>

RunStar ==
    /\ CanRun("star")
    /\ executed' = executed + 1
    /\ ns' = StarCell(ns)
    /\ out' = Display(out, "star", StarShown(ns))
    /\ UNCHANGED <<pyMajor, variantsSrc, mode>>

RunAcute ==
    /\ CanRun("acute")
    /\ executed' = executed + 1
    /\ ns' = AcuteCell(ns)
    /\ out' = Display(out, "acute", AcuteShown(ns))
    /\ UNCHANGED <<pyMajor, variantsSrc, mode>>

RunRight ==
    /\ CanRun("right")
    /\ executed' = executed + 1
    /\ ns' = RightCell(ns)
    /\ out' = Display(out, "right", RightShown(ns))
    /\ UNCHANGED <<pyMajor, variantsSrc, mode>>

RunObtuse ==
    /\ CanRun("obtuse")
    /\ executed' = executed + 1
    /\ ns' = ObtuseCell(ns)
    /\ out' = Display(out, "obtuse", ObtuseShown(ns))
    /\ UNCHANGED <<pyMajor, variantsSrc, mode>>

RunQuarter ==
    /\ CanRun("quarter")
    /\ executed' = executed + 1
    /\ ns' = QuarterCell(ns)
    /\ out' = Display(out, "quarter", QuarterShown(ns))
    /\ UNCHANGED <<pyMajor, variantsSrc, mode>>

RunSemi ==
    /\ CanRun("semi")
    /\ executed' = executed + 1
    /\ ns' = SemiCell(ns)
    /\ out' = Display(out, "semi", SemiShown(ns))
    /\ UNCHANGED <<pyMajor, variantsSrc, mode>>

RunThreeqtrs ==
    /\ CanRun("threeqtrs")
    /\ executed' = executed + 1
    /\ ns' = ThreeqtrsCell(ns)
    /\ out' = Display(out, "threeqtrs", ThreeqtrsShown(ns))
    /\ UNCHANGED <<pyMajor, variantsSrc, mode>>

RunFinal ==
    /\ CanRun("subclasses")
    /\ executed' = executed + 1
    /\ ns' = FinalCell(ns)
    /\ UNCHANGED <<pyMajor, variantsSrc, mode, out>>

Next ==
    \/ RunImport
    \/ RunSetup
    \/ RunSin
    \/ RunHyp
    \/ RunPolar
    \/ RunBar
    \/ RunTristar
    \/ RunCross
    \/ RunStar
    \/ RunAcute
    \/ RunRight
    \/ RunObtuse
    \/ RunQuarter
    \/ RunSemi
    \/ RunThreeqtrs
    \/ RunFinal

Spec == Init /\ [][Next]_vars

\* The namespace after the cells above the final one ran once, in notebook
\* order, on a fresh kernel: every collection is bound by then.
TopToCollections ==
    LET k1  == ImportCell(EmptyNs)
        k2  == SetupCell(k1)
        k3  == SinCell(k2)
        k4  == HypCell(k3)
        k5  == PolarCell(k4)
        k6  == BarCell(k5)
        k7  == TristarCell(k6)
        k8  == CrossCell(k7)
        k9  == StarCell(k8)
        k10 == AcuteCell(k9)
        k11 == RightCell(k10)
        k12 == ObtuseCell(k11)
        k13 == QuarterCell(k12)
        k14 == SemiCell(k13)
    IN  Then(k1, Then(k2, Then(k3, Then(k4, Then(k5, Then(k6, Then(k7,
        Then(k8, Then(k9, Then(k10, Then(k11, Then(k12, Then(k13, Then(k14,
        ThreeqtrsCell(k14)))))))))))))))

\* The namespace after every cell ran once, in notebook order, on a fresh kernel
TopToBottom == FinalCell(TopToCollections)

----------------------------------------------------------------------------
(* Properties *)

\* The final cell ran to its last statement.
Done == Has(ns, "all_stimuli_subclasses_labels")

SeqSet(xs) == {xs[i] : i \in 1..Len(xs)}

\* C1: after the hyperbolic cell ran with variants = 4, hyp holds one entry for
\* each of the 4 orientations i*pi/8 combined with each of the 3 zipped
\* (size, thickness) pairs: 12 entries.
C1_HypAllCombinations ==
    (Has(ns, "hyp") /\ ns["variants"] = 4) =>
        /\ Len(ns["hyp"]) = 12
        /\ DictKeys(ns["hyp"]) =
               {<<Sizes[p], Thicknesses[p], Norm(i, 8, 1)>> : i \in 0..3, p \in 1..3}

\* C2: after the sinusoidal cell ran, sin holds exactly variants * 3 entries,
\* one for each pair (orientation i*pi/variants, frequency in 2.0, 3.1, 4.2);
\* no two keys collide and every orientation of the generator is present.
C2_SinAllCombinations ==
    Has(ns, "sin") =>
        LET n == ns["variants"]
            keys == {<<Norm(i, n, 1), f>> : i \in 0..(n - 1),
                                            f \in {Dec(20, 10), Dec(31, 10), Dec(42, 10)}}
        IN  /\ Len(ns["sin"]) = n * 3
            /\ DictKeys(ns["sin"]) = keys
            /\ Cardinality(keys) = n * 3
            /\ \A i \in 1..Len(ns["sin"]) :
                   /\ ns["sin"][i][2].cls = "SineGrating"
                   /\ ns["sin"][i][2].kw.orientation = ns["sin"][i][1][1]
                   /\ ns["sin"][i][2].kw.frequency = ns["sin"][i][1][2]

C2_Witness ==
    /\ Has(ns, "sin")
    /\ ns["variants"] = 4
    /\ Len(ns["sin"]) = 12
    /\ GenDone(ns["orientations"])

\* C3: every subclass list has its label: the label lists are as long as the
\* subclass lists, and 'bar' stands at the index of the list bar.
C3_LabelsMatchSubclasses ==
    Done =>
        /\ Len(ns["all_stimuli_subclasses_labels"]) = Len(ns["all_stimuli_subclasses"])
        /\ Len(ns["grating_stimuli_subclasses_labels"])
               = Len(ns["grating_stimuli_subclasses"])
        /\ Len(ns["contour_stimuli_subclasses_labels"])
               = Len(ns["contour_stimuli_subclasses"])
        /\ \A i \in 1..Len(ns["all_stimuli_subclasses_labels"]) :
               ns["all_stimuli_subclasses_labels"][i] = "bar"
                   => ns["all_stimuli_subclasses"][i] = ListValue(ns["bar"])

\* C4: for every value n of variants, each bound contour list holds 2*n
\* patterns, n of size 0.5 followed by n of size 0.25, and each bound pol list
\* holds n patterns.
C4_VariantsPerSubclass ==
    /\ \A c \in SeqSet(ContourNames) :
           Has(ns, c) =>
               LET n == variantsSrc
               IN  /\ Len(ns[c]) = 2 * n
                   /\ \A i \in 1..Len(ns[c]) :
                          ns[c][i].kw.size = IF i <= n THEN Dec(5, 10) ELSE Dec(25, 100)
    /\ \A c \in {"pol1", "pol2", "pol3", "pol4", "pol5", "pol6"} :
           Has(ns, c) => Len(ns[c]) = variantsSrc

\* The value of a constructor parameter, a parameter not passed counting as
\* its default.
ParamOf(pat, name) ==
    IF name \in DOMAIN pat.kw THEN <<"passed", pat.kw[name]>> ELSE <<"default">>

AgreeOnOSF(a, b) ==
    \A name \in {"orientation", "size", "frequency"} : ParamOf(a, name) = ParamOf(b, name)

\* C5 as stated: within every subclass of all_stimuli_subclasses, two patterns
\* at different positions differ in orientation, size or frequency.
C5_DifferInOrientationSizeFrequency ==
    Done =>
        \A s \in 1..Len(ns["all_stimuli_subclasses"]) :
            LET c == ns["all_stimuli_subclasses"][s].items
            IN  \A a, b \in BagToSet(c) :
                    /\ CopiesIn(a, c) = 1
                    /\ a # b => ~AgreeOnOSF(a, b)

DifferInClassOrArgument(a, b) ==
    \/ a.cls # b.cls
    \/ \E name \in DOMAIN a.kw \cap DOMAIN b.kw : a.kw[name] # b.kw[name]

\* C5 amended: within every subclass of all_stimuli_subclasses, two patterns
\* at different positions differ in their class or in the value of a keyword
\* argument passed to both (orientation, size, frequency, parts, turning, ...).
C5_DifferInClassOrArgument ==
    Done =>
        \A s \in 1..Len(ns["all_stimuli_subclasses"]) :
            LET c == ns["all_stimuli_subclasses"][s].items
            IN  \A a, b \in BagToSet(c) :
                    /\ CopiesIn(a, c) = 1
                    /\ a # b => DifferInClassOrArgument(a, b)

\* Two spirals of concentric_like that agree on orientation, size and
\* frequency and differ in another argument.
C5_Witness ==
    /\ Done
    /\ variantsSrc = 4
    /\ \E i, j \in 1..Len(ns["concentric_like"]) :
           /\ i # j
           /\ ns["concentric_like"][i].cls = "SpiralGrating"
           /\ ns["concentric_like"][j].cls = "SpiralGrating"
           /\ AgreeOnOSF(ns["concentric_like"][i], ns["concentric_like"][j])
           /\ DifferInClassOrArgument(ns["concentric_like"][i], ns["concentric_like"][j])

\* Every pattern the pattern cells bound: the values of sin and hyp, polar and
\* the ten contour lists.
Constructed ==
    BagToSet(DictValues(ns["sin"]).items) \cup BagToSet(DictValues(ns["hyp"]).items)
        \cup SeqSet(ns["polar"])
        \cup UNION {SeqSet(ns[c]) : c \in SeqSet(ContourNames)}

\* C6: with variants = 4 the flattening of all_stimuli_subclasses holds every
\* constructed pattern exactly once, 12 + 12 + 24 + 10*8 = 128 patterns, the
\* grating subclasses first and the contour subclasses after.
C6_ViewAllEveryPatternOnce ==
    (Done /\ variantsSrc = 4) =>
        /\ ListLen(ViewAll(ns)) = 128
        /\ \A a \in BagToSet(ViewAll(ns).items) : CopiesIn(a, ViewAll(ns).items) = 1
        /\ BagToSet(ViewAll(ns).items) = Constructed
        /\ ViewAll(ns) = ListConcat(Flatten(ns["grating_stimuli_subclasses"]),
                                    Flatten(ns["contour_stimuli_subclasses"]))

\* C7: concentric_like and radial_like partition polar: every element of polar
\* is in exactly one of them, once; the lengths add up; pol1 and the suffixes
\* polK[k:] are in concentric_like, pol6 and the prefixes polK[:k] in
\* radial_like (pol2 at 1, pol3 at 2, pol4 at 2, pol5 at 3).
C7_PolarPartition ==
    HasAll(ns, {"concentric_like", "radial_like", "polar"}) =>
        LET c == ns["concentric_like"]
            r == ns["radial_like"]
            both == c \o r
        IN  /\ Len(c) + Len(r) = Len(ns["polar"])
            /\ SeqSet(c) \cap SeqSet(r) = {}
            /\ \A i \in 1..Len(ns["polar"]) :
                   Cardinality({j \in 1..Len(both) : both[j] = ns["polar"][i]}) = 1
            /\ SeqSet(ns["pol1"]) \subseteq SeqSet(c)
            /\ SeqSet(ns["pol6"]) \subseteq SeqSet(r)
            /\ \A fam \in {<<"pol2", 1>>, <<"pol3", 2>>, <<"pol4", 2>>, <<"pol5", 3>>} :
                   \A i \in 1..Len(ns[fam[1]]) :
                       ns[fam[1]][i] \in (IF i <= fam[2] THEN SeqSet(r) ELSE SeqSet(c))

C7_Witness ==
    /\ HasAll(ns, {"concentric_like", "radial_like", "polar"})
    /\ Len(ns["polar"]) = 24
    /\ Len(ns["concentric_like"]) = 12
    /\ Len(ns["radial_like"]) = 12

\* C8: with variants = 4 every displayed layout fills complete rows: it holds
\* a positive multiple of its column count of items.
C8_LayoutsFillRows ==
    variantsSrc = 4 =>
        \A cell \in DOMAIN out :
            /\ out[cell].items > 0
            /\ out[cell].items % out[cell].cols = 0

\* The collections of the pattern cells.
Collections ==
    {"sin", "hyp", "pol1", "pol2", "pol3", "pol4", "pol5", "pol6", "polar",
     "bar1", "bar2", "bar", "star1", "star2", "tristar", "star3", "star4", "cross",
     "star5", "star6", "star", "ang1", "ang2", "acute", "ang3", "ang4", "right",
     "ang5", "ang6", "obtuse", "arc1", "arc2", "quarter", "arc3", "arc4", "semi",
     "arc5", "arc6", "threeqtrs"}

\* C9: whatever the order of the executions and however often a cell was
\* executed, every collection that is bound has the contents a single
\* top-to-bottom run gives it.
C9_SameAsTopToBottom ==
    LET reference == TopToCollections
    IN  \A c \in Collections : Has(ns, c) => ns[c] = reference[c]

\* After a complete run the sinusoidal cell was executed again (orientations
\* is its generator, not the one of the hyperbolic cell further down).
C9_Witness ==
    /\ mode = "run_all"
    /\ executed > Len(CellOrder)
    /\ Done
    /\ ns["orientations"].mul = 1
    /\ ns["sin"] = TopToCollections["sin"]
====
